---- MODULE Spec2Model ----
(***************************************************************************)
(* AthenaConnector (botofication/athena/connector.py): the submit -> poll  *)
(* -> fetch -> flatten run of status_query, the row flattening of          *)
(* process_data, and the thread-pool fan-out of get_saved_queries.         *)
(***************************************************************************)
EXTENDS Integers, Sequences, FiniteSets, TLC

(* ------------------------------ bounds -------------------------------- *)
\* GetStatus calls one run may make before the model stops following it.
MaxPolls == 3
\* Invocations the caller makes on one connector.
MaxCalls == 2
\* Rows in a fetched result set, and cells in one row.
MaxRows == 2
MaxCells == 2
\* Saved-query ids the listing call returns, and worker threads of the pool.
MaxIds == 3
MaxWorkers == 2

(* --------------------------- Python values ---------------------------- *)
\* Values are tagged with their Python type, so that None, "" and "None"
\* are three different values.
None == [type |-> "NoneType", val |-> ""]
Str(s) == [type |-> "str", val |-> s]
Dict(d) == [type |-> "dict", val |-> d]
\* An int, written in decimal.
PyInt(digits) == [type |-> "int", val |-> digits]
\* The object boto3.client("athena", ...) returns.
Client == [type |-> "BaseClient", val |-> "athena"]

\* isinstance(v, str) / isinstance(v, dict)
IsStr(v) == v.type = "str"
IsDict(v) == v.type = "dict"

\* bool(v): None, the empty string and 0 are falsy.
Truthy(v) == ~(\/ v.type = "NoneType"
               \/ (v.type = "str" /\ v.val = "")
               \/ (v.type = "int" /\ v.val = "0"))

\* a or b
Or(a, b) == IF Truthy(a) THEN a ELSE b

\* f"{v}": str() of the value; None formats as the text None.
FormatValue(v) == IF v.type = "NoneType" THEN "None" ELSE v.val

\* d.get(k, default)
Get(d, k, default) == IF k \in DOMAIN d.val THEN d.val[k] ELSE default

(* ------------------------- the service's words ------------------------ *)
TerminalStates == {"SUCCEEDED", "FAILED", "CANCELLED"}

\* What get_query_execution may report: the service's five states and a
\* word outside the enumeration.
States == {"QUEUED", "RUNNING", "SUCCEEDED", "FAILED", "CANCELLED", "UNKNOWN"}

Handles == {"h1"}
Queries == {"SELECT 1", "SELECT 2"}

\* The sleep between two polls, in seconds.
PollInterval == 5

\* The cells and rows get_query_results may carry.
Cells ==
    { Dict([VarCharValue |-> Str("a")]),
      Dict([VarCharValue |-> Str("")]),
      Dict(<<>>) }

CellLists == UNION { [1..n -> Cells] : n \in 0..MaxCells }

Rows == { Dict([Data |-> cs]) : cs \in CellLists } \cup { Dict(<<>>), None }

RowLists == UNION { [1..n -> Rows] : n \in 0..MaxRows }

\* The result sets the mock service of a whole run answers with.
RunRowLists ==
    { <<>>,
      << Dict([Data |-> <<Dict([VarCharValue |-> Str("a")]), Dict(<<>>)>>]) >>,
      << Dict([Data |-> <<Dict([VarCharValue |-> Str("a")])>>]),
         Dict([Data |-> <<Dict([VarCharValue |-> Str("")]),
                          Dict([VarCharValue |-> Str("a")])>>]) >> }

\* An answer of the service client: a value, or a raised botocore error.
Ok(v) == [ok |-> TRUE, val |-> v, err |-> ""]
Fail(e, empty) == [ok |-> FALSE, val |-> empty, err |-> e]

SubmitAnswers == { Ok(h) : h \in Handles } \cup { Fail("ClientError", "") }
StatusAnswers == { Ok(s) : s \in States } \cup { Fail("ClientError", "") }
RowsAnswers == { Ok(r) : r \in RunRowLists } \cup { Fail("ClientError", <<>>) }

\* How the service lets one query go: non-terminal answers, then one last
\* answer of any kind, which it repeats if it is asked again.
NonTerminalAnswers == { Ok(s) : s \in States \ TerminalStates }
StatusScripts ==
    UNION { { Append(p, a) : p \in [1..n -> NonTerminalAnswers], a \in StatusAnswers }
            : n \in 0..(MaxPolls - 1) }

(* -------------------------------- state ------------------------------- *)
VARIABLES
    self,               \* the connector's private fields
    pc,                 \* where the current invocation stands
    query,              \* the argument of the current invocation
    self_at_call,       \* the fields as they were when it was invoked
    given,              \* what the constructor or a setter was called with
    request,            \* the last request given to start_query_execution
    query_execution_id, \* local of status_query
    state,              \* local of status_query
    result_data,        \* local of status_query / argument of process_data
    idx,                \* position of `for d in data`
    new_data,           \* local of process_data
    output,             \* the value returned
    outcome,            \* returned, or raised with which exception
    trace,              \* the client calls and sleeps of this invocation
    canned,             \* the mock service: the answers it has given
    history,            \* the finished invocations, oldest first
    workgroup,          \* the argument of get_saved_queries(_ids)
    query_ids,          \* local of get_saved_queries
    futures,            \* the executor's futures, one per id
    saved_queries_list, \* local of get_saved_queries
    completed,          \* the futures' indexes in the order they finished
    frames,             \* the locals of the status_query call of each thread
    executions          \* the service: the queries submitted to it, in order

vars == << self, pc, query, self_at_call, given, request, query_execution_id, state,
           result_data, idx, new_data, output, outcome, trace, canned,
           history, workgroup, query_ids, futures, saved_queries_list,
           completed, frames, executions >>

runVars == << query_execution_id, state, result_data, idx, new_data >>
fanVars == << workgroup, query_ids, futures, saved_queries_list, completed >>
parVars == << frames, executions >>

NoOutcome == [kind |-> "none", exc |-> "", msg |-> ""]
NoRequest == [QueryString |-> "", Database |-> None, OutputLocation |-> ""]
NoCanned == [submit |-> <<>>, status |-> <<>>, rows |-> <<>>]

\* The threads that call status_query on the one connector at once.
Threads == {"t1", "t2"}

\* The locals of a status_query call that has not been made.
NoFrame ==
    [pc |-> "idle", query |-> "", query_execution_id |-> "", state |-> "",
     result_data |-> <<>>, idx |-> 0, new_data |-> <<>>, output |-> <<>>,
     outcome |-> NoOutcome, trace |-> <<>>]

Event(op, id, ok, resp, secs) ==
    [op |-> op, id |-> id, ok |-> ok, resp |-> resp, secs |-> secs]

\* How many events of one kind the trace holds.
RECURSIVE Count(_, _)
Count(t, op) ==
    IF t = <<>> THEN 0
    ELSE (IF t[Len(t)].op = op THEN 1 ELSE 0) + Count(SubSeq(t, 1, Len(t) - 1), op)

\* The k-th answer of a canned script: the recorded one, or, the first
\* time it is asked for, any answer the service can give.
Answers(recorded, k, universe) ==
    IF k <= Len(recorded) THEN {recorded[k]} ELSE universe

Record(recorded, k, a) ==
    IF k <= Len(recorded) THEN recorded ELSE Append(recorded, a)

\* The answer of a status script to the k-th GetStatus call.
ScriptAnswer(script, k) == script[IF k <= Len(script) THEN k ELSE Len(script)]

(* --------------------------- construction ----------------------------- *)
\* __init__: the fields are the arguments; an optional one left out is None.
Configs ==
    [ region : {Str("us-west-1")},
      database : {None, Str(""), Str("testing")},
      workgroup : {None, Str("primary")},
      data_catalog : {None},
      output_bucket : {None, Str("bhupenderhere")},
      output_location : {Str("athena_query_results/")},
      aws_access_key_id : {None},
      aws_secret_access_key : {None},
      client : {Client} ]

InitLocals ==
    /\ query = ""
    /\ self_at_call = self
    /\ given = None
    /\ request = NoRequest
    /\ query_execution_id = ""
    /\ state = ""
    /\ result_data = <<>>
    /\ idx = 0
    /\ new_data = <<>>
    /\ output = <<>>
    /\ outcome = NoOutcome
    /\ trace = <<>>
    /\ canned = NoCanned
    /\ history = <<>>
    /\ workgroup = None
    /\ query_ids = <<>>
    /\ futures = <<>>
    /\ saved_queries_list = <<>>
    /\ completed = <<>>
    /\ frames = [t \in Threads |-> NoFrame]
    /\ executions = <<>>

Init ==
    /\ self \in Configs
    /\ pc = "idle"
    /\ InitLocals

(* ----------------------- leaving an invocation ------------------------ *)
Finished(op, res, out, tr) ==
    [op |-> op, query |-> query, workgroup |-> workgroup',
     before |-> self_at_call, after |-> self',
     outcome |-> res, output |-> out, trace |-> tr]

\* A handler that logs the error and lets the caller's loop go on.
RaiseSwallowed(op, prefix, cause, tr) ==
    /\ trace' = tr
    /\ UNCHANGED << pc, outcome, output, history >>

\* except (...) as e: raise Exception(f"<prefix>: {e}")
Raise(op, prefix, cause, tr) ==
    /\ pc' = "done"
    /\ outcome' = [kind |-> "raised", exc |-> "Exception", msg |-> prefix \o cause]
    /\ output' = <<>>
    /\ trace' = tr
    /\ history' = Append(history, Finished(op, outcome', <<>>, tr))

\* return value
Return(op, value) ==
    /\ pc' = "done"
    /\ outcome' = [kind |-> "returned", exc |-> "", msg |-> ""]
    /\ output' = value
    /\ history' = Append(history, Finished(op, outcome', value, trace'))

(* ---------------------------- status_query ---------------------------- *)
\* An invocation that goes to the polling loop without submitting.
status_querySkipsSubmit ==
    /\ pc \in {"idle", "done"}
    /\ Len(history) < MaxCalls
    /\ \E q \in Queries : query' = q
    /\ pc' = "get_query_execution"
    /\ self_at_call' = self
    /\ request' = NoRequest
    /\ query_execution_id' = ""
    /\ state' = ""
    /\ result_data' = <<>>
    /\ idx' = 0
    /\ new_data' = <<>>
    /\ output' = <<>>
    /\ outcome' = NoOutcome
    /\ trace' = <<>>
    /\ UNCHANGED << self, given, parVars, canned, history, fanVars >>

\* The caller invokes status_query(query).
status_query ==
    /\ pc \in {"idle", "done"}
    /\ Len(history) < MaxCalls
    /\ \E q \in Queries : query' = q
    /\ pc' = "start_query_execution"
    /\ self_at_call' = self
    /\ request' = NoRequest
    /\ query_execution_id' = ""
    /\ state' = ""
    /\ result_data' = <<>>
    /\ idx' = 0
    /\ new_data' = <<>>
    /\ output' = <<>>
    /\ outcome' = NoOutcome
    /\ trace' = <<>>
    /\ UNCHANGED << self, given, parVars, canned, history, fanVars >>

\* botocore's check of the request before it is sent: Database is a
\* non-empty string.
ValidRequest(req) == IsStr(req.Database) /\ req.Database.val # ""

\* response = self.__client.start_query_execution(...);
\* query_execution_id = response["QueryExecutionId"]
StartQueryExecution ==
    /\ pc = "start_query_execution"
    /\ UNCHANGED << self, given, parVars, query, self_at_call, state, result_data, idx, new_data,
                    fanVars >>
    /\ LET req == [ QueryString |-> query,
                    Database |-> self.database,
                    OutputLocation |-> "s3://" \o FormatValue(self.output_bucket)
                                       \o "/" \o FormatValue(self.output_location) ]
       IN /\ request' = req
          /\ IF ~ValidRequest(req)
             THEN /\ Raise("status_query", "Error While Running Query: ",
                           "ParamValidationError",
                           Append(trace, Event("start_query_execution", "", FALSE,
                                               "ParamValidationError", 0)))
                  /\ UNCHANGED << canned, query_execution_id >>
             ELSE \E a \in Answers(canned.submit, 1, SubmitAnswers),
                     sc \in (IF canned.status = <<>> THEN StatusScripts
                                                     ELSE {canned.status}) :
                    /\ canned' = [canned EXCEPT !.submit = Record(@, 1, a),
                                                !.status = IF a.ok THEN sc ELSE @]
                    /\ IF a.ok
                       THEN /\ query_execution_id' = a.val
                            /\ trace' = Append(trace, Event("start_query_execution",
                                                            "", TRUE, a.val, 0))
                            /\ pc' = "get_query_execution"
                            /\ UNCHANGED << output, outcome, history >>
                       ELSE /\ Raise("status_query", "Error While Running Query: ",
                                     a.err,
                                     Append(trace, Event("start_query_execution",
                                                         "", FALSE, a.err, 0)))
                            /\ UNCHANGED query_execution_id

\* A terminal test that forgets CANCELLED.
IsTerminalNoCancelled(s) == s \in {"SUCCEEDED", "FAILED"}

\* A terminal test that takes everything but RUNNING for terminal.
IsTerminalNotRunning(s) == s # "RUNNING"

\* A terminal test that knows the two waiting states and takes every
\* other word for terminal.
IsTerminalUnlessWaiting(s) == s \notin {"RUNNING", "QUEUED"}

\* A terminal test that waits for success only.
IsTerminalOnlySucceeded(s) == s = "SUCCEEDED"

\* state in ["SUCCEEDED", "FAILED", "CANCELLED"]
IsTerminal(s) == s \in {"SUCCEEDED", "FAILED", "CANCELLED"}

\* One turn of `while True`: get_query_execution, then break or go to sleep.
GetQueryExecution ==
    /\ pc = "get_query_execution"
    /\ Count(trace, "get_query_execution") < MaxPolls
    /\ UNCHANGED << self, given, parVars, query, self_at_call, request, query_execution_id,
                    result_data, idx, new_data, fanVars >>
    /\ LET k == Count(trace, "get_query_execution") + 1
       IN \E a \in {ScriptAnswer(canned.status, k)} :
            /\ UNCHANGED canned
            /\ IF a.ok
               THEN /\ state' = a.val
                    /\ trace' = Append(trace, Event("get_query_execution",
                                                    query_execution_id, TRUE, a.val, 0))
                    /\ pc' = IF IsTerminal(a.val) THEN "get_query_results" ELSE "sleep"
                    /\ UNCHANGED << output, outcome, history >>
               ELSE /\ Raise("status_query", "Error While Running Query: ", a.err,
                             Append(trace, Event("get_query_execution",
                                                 query_execution_id, FALSE, a.err, 0)))
                    /\ UNCHANGED state

\* A sleep that backs off: each one longer than the one before.
SleepBackoff ==
    /\ pc = "sleep"
    /\ trace' = Append(trace, Event("sleep", "", TRUE, "",
                                    PollInterval * (Count(trace, "sleep") + 1)))
    /\ pc' = "get_query_execution"
    /\ UNCHANGED << self, given, parVars, query, self_at_call, request, runVars, output,
                    outcome, canned, history, fanVars >>

\* time.sleep(5)
Sleep ==
    /\ pc = "sleep"
    /\ trace' = Append(trace, Event("sleep", "", TRUE, "", PollInterval))
    /\ pc' = "get_query_execution"
    /\ UNCHANGED << self, given, parVars, query, self_at_call, request, runVars, output, outcome,
                    canned, history, fanVars >>

\* A fetch that passes the SQL text where the execution id belongs.
GetQueryResultsWrongId ==
    /\ pc = "get_query_results"
    /\ UNCHANGED << self, given, parVars, query, self_at_call, request, query_execution_id,
                    state, fanVars >>
    /\ \E a \in Answers(canned.rows, 1, RowsAnswers) :
         /\ canned' = [canned EXCEPT !.rows = Record(@, 1, a)]
         /\ IF a.ok
            THEN /\ result_data' = a.val
                 /\ trace' = Append(trace, Event("get_query_results", query,
                                                 TRUE, "", 0))
                 /\ idx' = 1
                 /\ new_data' = <<>>
                 /\ pc' = "process_data"
                 /\ UNCHANGED << output, outcome, history >>
            ELSE /\ Raise("status_query", "Error While Running Query: ", a.err,
                          Append(trace, Event("get_query_results", query,
                                              FALSE, a.err, 0)))
                 /\ UNCHANGED << result_data, idx, new_data >>

\* result_response = self.__client.get_query_results(...);
\* result_data = result_response["ResultSet"]["Rows"]
GetQueryResults ==
    /\ pc = "get_query_results"
    /\ UNCHANGED << self, given, parVars, query, self_at_call, request, query_execution_id, state,
                    fanVars >>
    /\ \E a \in Answers(canned.rows, 1, RowsAnswers) :
         /\ canned' = [canned EXCEPT !.rows = Record(@, 1, a)]
         /\ IF a.ok
            THEN /\ result_data' = a.val
                 /\ trace' = Append(trace, Event("get_query_results",
                                                 query_execution_id, TRUE, "", 0))
                 /\ idx' = 1
                 /\ new_data' = <<>>
                 /\ pc' = "process_data"
                 /\ UNCHANGED << output, outcome, history >>
            ELSE /\ Raise("status_query", "Error While Running Query: ", a.err,
                          Append(trace, Event("get_query_results",
                                              query_execution_id, FALSE, a.err, 0)))
                 /\ UNCHANGED << result_data, idx, new_data >>

\* A flattening that turns a missing value into the empty string.
ValuesEmptyDefault(dict_data) ==
    [ j \in 1..Len(dict_data) |-> Get(dict_data[j], "VarCharValue", Str("")) ]

\* values = [each_dict.get("VarCharValue", None) for each_dict in dict_data]
Values(dict_data) ==
    [ j \in 1..Len(dict_data) |-> Get(dict_data[j], "VarCharValue", None) ]

\* A drop rule that is off by one: it keeps the rows of one cell.
ProcessRowKeepsSingles(acc, d) ==
    IF IsDict(d)
    THEN LET dict_data == Get(d, "Data", <<>>)
             values == Values(dict_data)
         IN IF Len(values) > 0 THEN Append(acc, values) ELSE acc
    ELSE acc

\* The body of `for d in data`: what new_data is after row d.
ProcessRow(acc, d) ==
    IF IsDict(d)
    THEN LET dict_data == Get(d, "Data", <<>>)
             values == Values(dict_data)
         IN IF Len(values) > 1 THEN Append(acc, values) ELSE acc
    ELSE acc

\* One turn of `for d in data` in process_data.
ProcessData ==
    /\ pc = "process_data"
    /\ idx <= Len(result_data)
    /\ new_data' = ProcessRow(new_data, result_data[idx])
    /\ idx' = idx + 1
    /\ UNCHANGED << self, given, parVars, pc, query, self_at_call, request, query_execution_id,
                    state, result_data, output, outcome, trace, canned, history,
                    fanVars >>

\* A new_data that outlives the call (a list shared between invocations).
ReturnOutputShared ==
    /\ pc = "process_data"
    /\ idx > Len(result_data)
    /\ UNCHANGED << self, given, parVars, query, self_at_call, request, runVars, trace, canned,
                    fanVars >>
    /\ Return("status_query",
              IF history = <<>> THEN new_data
              ELSE history[Len(history)].output \o new_data)

\* return new_data; output = process_data(result_data); return output
ReturnOutput ==
    /\ pc = "process_data"
    /\ idx > Len(result_data)
    /\ UNCHANGED << self, given, parVars, query, self_at_call, request, runVars, trace, canned,
                    fanVars >>
    /\ Return("status_query", new_data)

(* ------------------------ get_saved_queries_ids ----------------------- *)
\* The workgroup arguments a caller passes, None being the default.
WorkgroupArgs == {None, Str("secondary")}

\* What list_named_queries answers in a whole-connector run.
ListAnswers ==
    { Ok(<<"q1", "q2">>), Fail("ClientError", <<>>) }

\* get_saved_queries_ids(workgroup): one client call, no loop.
get_saved_queries_ids ==
    /\ pc \in {"idle", "done"}
    /\ Len(history) < MaxCalls
    /\ query' = ""
    /\ self_at_call' = self
    /\ request' = NoRequest
    /\ query_execution_id' = ""
    /\ state' = ""
    /\ result_data' = <<>>
    /\ idx' = 0
    /\ new_data' = <<>>
    /\ UNCHANGED << self, given, parVars, canned, query_ids, futures, saved_queries_list,
                    completed >>
    /\ \E w \in WorkgroupArgs :
         /\ workgroup' = w
         /\ IF Truthy(self.workgroup) \/ Truthy(w)
            THEN \E a \in ListAnswers :
                   LET call == Event("list_named_queries",
                                     FormatValue(Or(w, self.workgroup)), a.ok, a.err, 0)
                   IN IF a.ok
                      THEN /\ trace' = << call >>
                           /\ Return("get_saved_queries_ids", a.val)
                      ELSE Raise("get_saved_queries_ids",
                                 "Error Getting Saved Queries: ", a.err, << call >>)
            ELSE Raise("get_saved_queries_ids", "Error Getting Saved Queries: ",
                       "Workgroup Not Provided!", <<>>)

Next ==
    \/ status_query
    \/ get_saved_queries_ids
    \/ StartQueryExecution
    \/ GetQueryExecution
    \/ Sleep
    \/ GetQueryResults
    \/ ProcessData
    \/ ReturnOutput

Spec == Init /\ [][Next]_vars

(* ---------------------- status_query left to run ---------------------- *)
\* The connector as used for queries only.
InitLive ==
    /\ Init
    /\ self.workgroup = None

NextLive ==
    \/ status_query
    \/ StartQueryExecution
    \/ GetQueryExecution
    \/ Sleep
    \/ GetQueryResults
    \/ ProcessData
    \/ ReturnOutput

\* The thread that runs status_query is not starved, every client call comes
\* back (with an answer or an error) and time.sleep returns; the caller is
\* free never to invoke it.
SpecLive ==
    /\ InitLive
    /\ [][NextLive]_vars
    /\ WF_vars(StartQueryExecution)
    /\ WF_vars(GetQueryExecution)
    /\ WF_vars(Sleep)
    /\ WF_vars(GetQueryResults)
    /\ WF_vars(ProcessData)
    /\ WF_vars(ReturnOutput)

(* -------------------------- get_saved_queries ------------------------- *)
QueryIds == {"q1", "q2", "q3"}

\* The id lists list_named_queries may answer with.
IdLists == UNION { [1..n -> QueryIds] : n \in 0..MaxIds }

FanListAnswers == { Ok(ids) : ids \in IdLists } \cup { Fail("ClientError", <<>>) }

\* What get_named_query answers for one id: the response that wraps the
\* id's record, or an error.
GetNamedQueryAnswers(query_id) ==
    { Ok(Dict([NamedQuery |-> Str(query_id \o "-record")])),
      Fail("ClientError", Dict(<<>>)) }

NoFuture == [state |-> "pending", answer |-> Ok(Dict(<<>>))]

InitFan ==
    /\ self \in { c \in Configs : /\ c.database = Str("testing")
                                  /\ c.output_bucket = Str("bhupenderhere") }
    /\ pc = "idle"
    /\ InitLocals

\* get_saved_queries(workgroup) up to query_ids = saved_queries["NamedQueryIds"]
get_saved_queries ==
    /\ pc = "idle"
    /\ UNCHANGED << self, given, parVars, query, self_at_call, request, runVars, canned, futures,
                    saved_queries_list, completed >>
    /\ \E w \in WorkgroupArgs :
         /\ workgroup' = w
         /\ IF Truthy(self.workgroup) \/ Truthy(w)
            THEN \E a \in FanListAnswers :
                   LET call == Event("list_named_queries",
                                     FormatValue(Or(w, self.workgroup)), a.ok, a.err, 0)
                   IN IF a.ok
                      THEN /\ query_ids' = a.val
                           /\ trace' = << call >>
                           /\ pc' = "executor_map"
                           /\ UNCHANGED << output, outcome, history >>
                      ELSE /\ UNCHANGED query_ids
                           /\ Raise("get_saved_queries",
                                    "Error Getting Saved Queries: ", a.err, << call >>)
            ELSE /\ UNCHANGED query_ids
                 /\ Raise("get_saved_queries", "Error Getting Saved Queries: ",
                          "Workgroup Not Provided!", <<>>)

\* executor.map(__get_query, query_ids): one future per id, submitted at
\* once, in the order of the ids.
ExecutorMap ==
    /\ pc = "executor_map"
    /\ futures' = [ i \in 1..Len(query_ids) |-> NoFuture ]
    /\ saved_queries_list' = <<>>
    /\ completed' = <<>>
    /\ pc' = "collect"
    /\ UNCHANGED << self, given, parVars, query, self_at_call, request, runVars, output, outcome,
                    trace, canned, history, workgroup, query_ids >>

Running == { i \in 1..Len(futures) : futures[i].state = "running" }
Pending == { i \in 1..Len(futures) : futures[i].state = "pending" }

\* A free worker thread takes the oldest work item of the queue.
WorkerStart ==
    /\ pc \in {"collect", "exit_with"}
    /\ Pending # {}
    /\ Cardinality(Running) < MaxWorkers
    /\ LET i == CHOOSE p \in Pending : \A o \in Pending : p <= o
       IN futures' = [futures EXCEPT ![i].state = "running"]
    /\ UNCHANGED << self, given, parVars, pc, query, self_at_call, request, runVars, output,
                    outcome, trace, canned, history, workgroup, query_ids,
                    saved_queries_list, completed >>

\* __get_query(query_id) in a worker: get_named_query returns or raises, and
\* the future holds the outcome.
WorkerFinish ==
    /\ pc \in {"collect", "exit_with"}
    /\ \E i \in Running : \E a \in GetNamedQueryAnswers(query_ids[i]) :
         /\ futures' = [futures EXCEPT ![i] = [state |-> "finished", answer |-> a]]
         /\ completed' = Append(completed, i)
         /\ trace' = Append(trace, Event("get_named_query", query_ids[i],
                                         a.ok, a.err, 0))
    /\ UNCHANGED << self, given, parVars, pc, query, self_at_call, request, runVars, output,
                    outcome, canned, history, workgroup, query_ids,
                    saved_queries_list >>

\* A result iterator that hands out the results as they complete.
NextFutureCompleted(k) == IF k <= Len(completed) THEN completed[k] ELSE k

\* The future whose result the iterator of executor.map yields k-th: the
\* one of the k-th id.
NextFuture(k) == k

\* list(executor.map(...)): the caller takes the next result, waiting for
\* its future; a future that raised ends the iteration, which cancels the
\* futures no worker has taken yet.
Collect ==
    /\ pc = "collect"
    /\ Len(saved_queries_list) < Len(futures)
    /\ LET f == NextFuture(Len(saved_queries_list) + 1) IN
         /\ futures[f].state = "finished"
         /\ IF futures[f].answer.ok
            THEN /\ saved_queries_list' = Append(saved_queries_list,
                                                 futures[f].answer.val)
                 /\ UNCHANGED << futures, pc >>
            ELSE /\ futures' = [ i \in 1..Len(futures) |->
                                   IF futures[i].state = "pending"
                                   THEN [futures[i] EXCEPT !.state = "cancelled"]
                                   ELSE futures[i] ]
                 /\ pc' = "exit_with"
                 /\ UNCHANGED saved_queries_list
    /\ UNCHANGED << self, given, parVars, query, self_at_call, request, runVars, output, outcome,
                    trace, canned, history, workgroup, query_ids, completed >>

\* The exit of `with ThreadPoolExecutor()` joins the workers; then
\* data = [data["NamedQuery"] for data in saved_queries_list]; return data,
\* or the except clause wraps the error a future raised.
ExitWith ==
    /\ \/ pc = "collect" /\ Len(saved_queries_list) = Len(futures)
       \/ pc = "exit_with"
    /\ Running = {} /\ Pending = {}
    /\ UNCHANGED << self, given, parVars, query, self_at_call, request, runVars, canned, fanVars >>
    /\ IF pc = "collect"
       THEN /\ UNCHANGED trace
            /\ Return("get_saved_queries",
                      [ i \in 1..Len(saved_queries_list) |->
                          Get(saved_queries_list[i], "NamedQuery", None) ])
       ELSE Raise("get_saved_queries", "Error Getting Saved Queries: ",
                  "ClientError", trace)

NextFan ==
    \/ get_saved_queries
    \/ ExecutorMap
    \/ WorkerStart
    \/ WorkerFinish
    \/ Collect
    \/ ExitWith

SpecFan == InitFan /\ [][NextFan]_vars

(* ------------------- process_data on every result set ----------------- *)
\* status_query right after get_query_results has answered, the answer
\* being any result set within the bounds.
InitFlat ==
    /\ self = [ region |-> Str("us-west-1"), database |-> Str("testing"),
                workgroup |-> None, data_catalog |-> None,
                output_bucket |-> Str("bhupenderhere"),
                output_location |-> Str("athena_query_results/"),
                aws_access_key_id |-> None, aws_secret_access_key |-> None,
                client |-> Client ]
    /\ pc = "process_data"
    /\ query = "SELECT 1"
    /\ self_at_call = self
    /\ given = None
    /\ request = [ QueryString |-> "SELECT 1", Database |-> Str("testing"),
                   OutputLocation |-> "s3://bhupenderhere/athena_query_results/" ]
    /\ query_execution_id = "h1"
    /\ state = "SUCCEEDED"
    /\ result_data \in RowLists
    /\ idx = 1
    /\ new_data = <<>>
    /\ output = <<>>
    /\ outcome = NoOutcome
    /\ trace = << Event("start_query_execution", "", TRUE, "h1", 0),
                  Event("get_query_execution", "h1", TRUE, "SUCCEEDED", 0),
                  Event("get_query_results", "h1", TRUE, "", 0) >>
    /\ canned = [ submit |-> << Ok("h1") >>, status |-> << Ok("SUCCEEDED") >>,
                  rows |-> << Ok(result_data) >> ]
    /\ history = <<>>
    /\ frames = [t \in Threads |-> NoFrame]
    /\ executions = <<>>
    /\ workgroup = None
    /\ query_ids = <<>>
    /\ futures = <<>>
    /\ saved_queries_list = <<>>
    /\ completed = <<>>

NextFlat ==
    \/ ProcessData
    \/ ReturnOutput

SpecFlat == InitFlat /\ [][NextFlat]_vars

(* ------------------ status_query on several threads ------------------- *)
\* The handle the service gives to its first and to its second submission.
ThreadHandles == << "h1", "h2" >>

\* How the service lets a query go, and the rows it keeps for it.
ThreadScripts ==
    { << Ok("SUCCEEDED") >>,
      << Ok("RUNNING"), Ok("SUCCEEDED") >>,
      << Ok("QUEUED"), Ok("FAILED") >>,
      << Fail("ClientError", "") >> }

\* What is left alone by a step of a thread's status_query.
seqVars == << self, pc, query, self_at_call, given, request, runVars, output,
              outcome, trace, canned, history, fanVars >>

\* The submission the service knows under handle h, 0 if there is none.
ExecutionOf(h) ==
    IF \E i \in 1..Len(executions) : executions[i].id = h
    THEN CHOOSE i \in 1..Len(executions) : executions[i].id = h
    ELSE 0

\* One connector for all threads, with everything status_query reads.
InitPar ==
    /\ Init
    /\ self.database = Str("testing")
    /\ self.output_bucket = Str("bhupenderhere")
    /\ self.workgroup = None

\* except (...) as e: raise Exception(f"Error While Running Query: {e}")
ThreadRaise(t, cause, tr) ==
    frames' = [frames EXCEPT ![t] =
                 [@ EXCEPT !.pc = "done",
                           !.outcome = [kind |-> "raised", exc |-> "Exception",
                                        msg |-> "Error While Running Query: "
                                                \o cause],
                           !.output = <<>>,
                           !.trace = tr]]

\* Thread t invokes status_query(query).
ThreadStatusQuery(t) ==
    /\ frames[t].pc = "idle"
    /\ \E q \in Queries :
         frames' = [frames EXCEPT ![t] =
                      [NoFrame EXCEPT !.pc = "start_query_execution", !.query = q]]
    /\ UNCHANGED << seqVars, executions >>

\* response = self.__client.start_query_execution(...);
\* query_execution_id = response["QueryExecutionId"]
ThreadStartQueryExecution(t) ==
    /\ frames[t].pc = "start_query_execution"
    /\ UNCHANGED seqVars
    /\ LET f == frames[t]
           h == ThreadHandles[Len(executions) + 1]
       IN \/ \E sc \in ThreadScripts, r \in RowsAnswers :
               /\ executions' = Append(executions,
                                       [id |-> h, owner |-> t, query |-> f.query,
                                        script |-> sc, rows |-> r, polls |-> 0])
               /\ frames' = [frames EXCEPT ![t] =
                    [@ EXCEPT !.query_execution_id = h,
                              !.trace = Append(@, Event("start_query_execution",
                                                        "", TRUE, h, 0)),
                              !.pc = "get_query_execution"]]
          \/ /\ ThreadRaise(t, "ClientError",
                            Append(f.trace, Event("start_query_execution", "",
                                                  FALSE, "ClientError", 0)))
             /\ UNCHANGED executions

\* A handle kept on the connector: the one of the latest submission.
QueryExecutionIdOnSelf(t) == executions[Len(executions)].id

\* query_execution_id, a local of the call
QueryExecutionId(t) == frames[t].query_execution_id

\* One turn of `while True`: get_query_execution, then break or go to sleep.
ThreadGetQueryExecution(t) ==
    /\ frames[t].pc = "get_query_execution"
    /\ UNCHANGED seqVars
    /\ LET f == frames[t]
           h == QueryExecutionId(t)
           i == ExecutionOf(h)
           a == IF i = 0 THEN Fail("InvalidRequestException", "")
                ELSE ScriptAnswer(executions[i].script, executions[i].polls + 1)
       IN /\ executions' = IF i = 0 \/ executions[i].polls = Len(executions[i].script)
                           THEN executions
                           ELSE [executions EXCEPT ![i].polls = @ + 1]
          /\ IF a.ok
             THEN frames' = [frames EXCEPT ![t] =
                    [@ EXCEPT !.state = a.val,
                              !.trace = Append(@, Event("get_query_execution",
                                                        h, TRUE, a.val, 0)),
                              !.pc = IF IsTerminal(a.val) THEN "get_query_results"
                                                          ELSE "sleep"]]
             ELSE ThreadRaise(t, a.err,
                              Append(f.trace, Event("get_query_execution", h,
                                                    FALSE, a.err, 0)))

\* time.sleep(5)
ThreadSleep(t) ==
    /\ frames[t].pc = "sleep"
    /\ frames' = [frames EXCEPT ![t] =
                    [@ EXCEPT !.trace = Append(@, Event("sleep", "", TRUE, "",
                                                        PollInterval)),
                              !.pc = "get_query_execution"]]
    /\ UNCHANGED << seqVars, executions >>

\* result_response = self.__client.get_query_results(...);
\* result_data = result_response["ResultSet"]["Rows"]
ThreadGetQueryResults(t) ==
    /\ frames[t].pc = "get_query_results"
    /\ UNCHANGED << seqVars, executions >>
    /\ LET f == frames[t]
           h == QueryExecutionId(t)
           i == ExecutionOf(h)
           a == IF i = 0 THEN Fail("InvalidRequestException", <<>>)
                ELSE executions[i].rows
       IN IF a.ok
          THEN frames' = [frames EXCEPT ![t] =
                 [@ EXCEPT !.result_data = a.val,
                           !.trace = Append(@, Event("get_query_results", h,
                                                     TRUE, "", 0)),
                           !.idx = 1,
                           !.new_data = <<>>,
                           !.pc = "process_data"]]
          ELSE ThreadRaise(t, a.err,
                           Append(f.trace, Event("get_query_results", h, FALSE,
                                                 a.err, 0)))

\* One turn of `for d in data` in process_data.
ThreadProcessData(t) ==
    /\ frames[t].pc = "process_data"
    /\ frames[t].idx <= Len(frames[t].result_data)
    /\ frames' = [frames EXCEPT ![t] =
                    [@ EXCEPT !.new_data = ProcessRow(@, frames[t].result_data[
                                                             frames[t].idx]),
                              !.idx = @ + 1]]
    /\ UNCHANGED << seqVars, executions >>

\* return new_data; output = process_data(result_data); return output
ThreadReturnOutput(t) ==
    /\ frames[t].pc = "process_data"
    /\ frames[t].idx > Len(frames[t].result_data)
    /\ frames' = [frames EXCEPT ![t] =
                    [@ EXCEPT !.pc = "done",
                              !.outcome = [kind |-> "returned", exc |-> "",
                                           msg |-> ""],
                              !.output = frames[t].new_data]]
    /\ UNCHANGED << seqVars, executions >>

NextPar ==
    \E t \in Threads :
        \/ ThreadStatusQuery(t)
        \/ ThreadStartQueryExecution(t)
        \/ ThreadGetQueryExecution(t)
        \/ ThreadSleep(t)
        \/ ThreadGetQueryResults(t)
        \/ ThreadProcessData(t)
        \/ ThreadReturnOutput(t)

SpecPar == InitPar /\ [][NextPar]_vars

(* ------------------------------ setters ------------------------------- *)
\* What a caller may assign to a field: strings, None and ints.
SetterValues == { Str("other"), Str(""), None, PyInt("0"), PyInt("7") }

SettableFields ==
    {"database", "output_bucket", "output_location", "workgroup", "data_catalog"}

\* A setter that stores whatever it is given.
SetFieldUnchecked(field, v) ==
    /\ given' = v
    /\ self_at_call' = self
    /\ pc' = "done"
    /\ trace' = <<>>
    /\ output' = <<>>
    /\ outcome' = [kind |-> "returned", exc |-> "", msg |-> ""]
    /\ self' = [self EXCEPT ![field] = v]
    /\ history' = Append(history, [ op |-> field \o ".setter", field |-> field,
                                    given |-> v, before |-> self, after |-> self',
                                    outcome |-> outcome' ])
    /\ UNCHANGED << query, request, runVars, canned, fanVars, parVars >>

\* The body every setter has, for its own field:
\* if not isinstance(x, str): raise TypeError(e); self.__x = x
SetField(field, v) ==
    /\ given' = v
    /\ self_at_call' = self
    /\ pc' = "done"
    /\ trace' = <<>>
    /\ output' = <<>>
    /\ IF ~IsStr(v)
       THEN /\ outcome' = [ kind |-> "raised", exc |-> "TypeError",
                            msg |-> field
                                    \o " -> Expected String Or Bytes-Like Object" ]
            /\ UNCHANGED self
       ELSE /\ outcome' = [kind |-> "returned", exc |-> "", msg |-> ""]
            /\ self' = [self EXCEPT ![field] = v]
    /\ history' = Append(history, [ op |-> field \o ".setter", field |-> field,
                                    given |-> v, before |-> self, after |-> self',
                                    outcome |-> outcome' ])
    /\ UNCHANGED << query, request, runVars, canned, fanVars, parVars >>

\* The caller assigns to connector.database.
database_setter ==
    /\ pc \in {"idle", "done"}
    /\ Len(history) < MaxCalls
    /\ \E v \in SetterValues : SetField("database", v)

\* The caller assigns to connector.output_bucket.
output_bucket_setter ==
    /\ pc \in {"idle", "done"}
    /\ Len(history) < MaxCalls
    /\ \E v \in SetterValues : SetField("output_bucket", v)

\* The caller assigns to connector.output_location.
output_location_setter ==
    /\ pc \in {"idle", "done"}
    /\ Len(history) < MaxCalls
    /\ \E v \in SetterValues : SetField("output_location", v)

\* The caller assigns to connector.workgroup.
workgroup_setter ==
    /\ pc \in {"idle", "done"}
    /\ Len(history) < MaxCalls
    /\ \E v \in SetterValues : SetField("workgroup", v)

\* The caller assigns to connector.data_catalog.
data_catalog_setter ==
    /\ pc \in {"idle", "done"}
    /\ Len(history) < MaxCalls
    /\ \E v \in SetterValues : SetField("data_catalog", v)


NextSet ==
    \/ database_setter
    \/ output_bucket_setter
    \/ output_location_setter
    \/ workgroup_setter
    \/ data_catalog_setter

SpecSet == Init /\ [][NextSet]_vars

(* ---------------------------- construction ---------------------------- *)
\* The parameters of __get_args, in the order they are checked.
ArgNames ==
    << "region", "database", "workgroup", "data_catalog", "output_bucket",
       "output_location", "aws_access_key_id", "aws_secret_access_key" >>

\* What a caller may pass for a parameter; None is also the default of one
\* left out.
ArgValues == { None, Str("us-west-1"), PyInt("0"), PyInt("7") }

\* The connector before __init__ has run: no field and no client yet.
Unconstructed ==
    [ region |-> None, database |-> None, workgroup |-> None,
      data_catalog |-> None, output_bucket |-> None, output_location |-> None,
      aws_access_key_id |-> None, aws_secret_access_key |-> None,
      client |-> None ]

\* __check(k, v) raises: k is the value and v the name of the parameter;
\* "region" in v holds for the name region only.
Check(k, v) == (v = "region" \/ Truthy(k)) /\ ~IsStr(k)

InitNew ==
    /\ self = Unconstructed
    /\ pc = "new"
    /\ InitLocals

\* AthenaConnector(region, database, ...): __get_args checks the arguments
\* one after the other, then the fields are set and the client is made.
AthenaConnector_init ==
    /\ pc = "new"
    /\ \E a \in [ { ArgNames[i] : i \in 1..Len(ArgNames) } -> ArgValues ] :
         LET failing == { i \in 1..Len(ArgNames) : Check(a[ArgNames[i]], ArgNames[i]) }
             first == CHOOSE i \in failing : \A j \in failing : i <= j
         IN /\ given' = a
            /\ self_at_call' = self
            /\ pc' = "done"
            /\ trace' = <<>>
            /\ output' = <<>>
            /\ IF failing # {}
               THEN /\ outcome' = [kind |-> "raised", exc |-> "TypeError",
                                   msg |-> ArgNames[first]
                                           \o " -> Expected String Or Bytes-Like Object"]
                    /\ UNCHANGED self
               ELSE /\ outcome' = [kind |-> "returned", exc |-> "", msg |-> ""]
                    /\ self' = [ region |-> a.region,
                                 database |-> a.database,
                                 workgroup |-> a.workgroup,
                                 data_catalog |-> a.data_catalog,
                                 output_bucket |-> a.output_bucket,
                                 output_location |-> a.output_location,
                                 aws_access_key_id |-> a.aws_access_key_id,
                                 aws_secret_access_key |-> a.aws_secret_access_key,
                                 client |-> Client ]
            /\ history' = Append(history,
                                 [op |-> "__init__", given |-> a, before |-> self,
                                  after |-> self', outcome |-> outcome'])
    /\ UNCHANGED << query, request, runVars, canned, fanVars, parVars >>

NextNew == AthenaConnector_init

SpecNew == InitNew /\ [][NextNew]_vars

(* ============================ the claims ============================== *)
\* The finished invocation the connector has just left, when pc = "done".
Last == history[Len(history)]

InRun == pc \in {"start_query_execution", "get_query_execution", "sleep",
                 "get_query_results", "process_data"}
RunDone == pc = "done" /\ Last.op = "status_query"

\* Event i of the trace is a GetStatus call that returned state s.
Saw(t, i, s) == t[i].op = "get_query_execution" /\ t[i].ok /\ t[i].resp = s

SawTerminal(t, i) ==
    \E s \in {"SUCCEEDED", "FAILED", "CANCELLED"} : Saw(t, i, s)

(* C1: FetchResultRows (get_query_results) is called only after a GetStatus
   call for the same handle returned SUCCEEDED; after FAILED or CANCELLED it
   is never called. *)
C1_FetchOnlyAfterSucceeded ==
    (InRun \/ RunDone) =>
        \A i \in 1..Len(trace) :
            trace[i].op = "get_query_results" =>
                /\ \E j \in 1..(i - 1) :
                     Saw(trace, j, "SUCCEEDED") /\ trace[j].id = trace[i].id
                /\ ~ \E j \in 1..(i - 1) :
                     Saw(trace, j, "FAILED") \/ Saw(trace, j, "CANCELLED")

(* C2: a run that got a handle calls GetStatus at least once, and makes no
   GetStatus call after the first one that returned a terminal state. *)
C2_NoPollAfterTerminal ==
    (InRun \/ RunDone) =>
        /\ \A i \in 1..Len(trace) : \A j \in (i + 1)..Len(trace) :
             SawTerminal(trace, i) => trace[j].op # "get_query_execution"
        /\ (query_execution_id # ""
              /\ pc \in {"sleep", "get_query_results", "process_data", "done"})
             => Count(trace, "get_query_execution") >= 1

\* The run went on after a terminal state: the fetch followed it.
C2_Witness ==
    /\ RunDone
    /\ \E i \in 1..Len(trace) : \E j \in (i + 1)..Len(trace) :
         SawTerminal(trace, i) /\ trace[j].op = "get_query_results"
    /\ Count(trace, "get_query_execution") >= 2

\* The service answered the first n GetStatus calls with RUNNING or QUEUED
\* and the next one with SUCCEEDED, and no call failed.
SucceedsAfter(n) ==
    /\ Len(canned.submit) = 1 /\ canned.submit[1].ok
    /\ Len(canned.status) = n + 1
    /\ \A k \in 1..n : canned.status[k].ok
                       /\ canned.status[k].val \in {"RUNNING", "QUEUED"}
    /\ canned.status[n + 1] = Ok("SUCCEEDED")
    /\ Len(canned.rows) = 1 /\ canned.rows[1].ok

(* C3: n non-terminal answers, then SUCCEEDED, and no failure: the finished
   run made exactly n+1 GetStatus calls and exactly one FetchResultRows. *)
C3_ExactCallCounts ==
    \A n \in 0..(MaxPolls - 1) :
        (RunDone /\ SucceedsAfter(n)) =>
            /\ Last.outcome.kind = "returned"
            /\ Count(Last.trace, "get_query_execution") = n + 1
            /\ Count(Last.trace, "get_query_results") = 1
            /\ Count(Last.trace, "start_query_execution") = 1

C3_Witness ==
    /\ RunDone /\ SucceedsAfter(2)
    /\ Count(Last.trace, "get_query_execution") = 3
    /\ Count(Last.trace, "get_query_results") = 1

(* C6: when a Gateway call of a run fails, the run ends at once with one
   Exception: the failed call is the last call of the run. *)
C6_FailureEndsRun ==
    /\ (InRun \/ RunDone) =>
         \A i \in 1..Len(trace) :
             ~trace[i].ok =>
                 /\ i = Len(trace)
                 /\ RunDone
                 /\ outcome.kind = "raised" /\ outcome.exc = "Exception"
                 /\ Last.trace = trace /\ Last.outcome = outcome
    /\ \A h \in 1..Len(history) :
         history[h].op = "status_query" =>
             \A i \in 1..Len(history[h].trace) :
                 ~history[h].trace[i].ok =>
                     /\ i = Len(history[h].trace)
                     /\ history[h].outcome.kind = "raised"

\* A GetStatus call failed after a sleep, and the run has ended raising.
C6_Witness ==
    /\ RunDone /\ outcome.kind = "raised"
    /\ Len(trace) >= 4
    /\ trace[Len(trace)].op = "get_query_execution" /\ ~trace[Len(trace)].ok

(* C7: a run in which GetStatus reported FAILED or CANCELLED never ends
   with the outcome of a failed Gateway call (the wrapped Exception). *)
C7_NonSuccessIsNotTransportError ==
    RunDone =>
        ((\E i \in 1..Len(trace) :
             Saw(trace, i, "FAILED") \/ Saw(trace, i, "CANCELLED"))
           => outcome.kind # "raised")

\* The cell sequence of a raw row; an absent one is the empty sequence.
CellsOf(row) ==
    IF row.type = "dict" /\ "Data" \in DOMAIN row.val THEN row.val.Data ELSE <<>>

HasValue(cell) == "VarCharValue" \in DOMAIN cell.val

\* The rows of a result set that carry two cells or more, in their order.
KeptRows(rows) == SelectSeq(rows, LAMBDA r : Len(CellsOf(r)) >= 2)

\* Table t is the rows of `rows` with two cells or more, in the same
\* order, each with as many cells as the raw row and every cell that has a
\* value carrying that value at the same position.
IsFlatteningOf(t, rows) ==
    LET kept == KeptRows(rows) IN
    /\ Len(t) = Len(kept)
    /\ \A i \in 1..Len(kept) :
         /\ Len(t[i]) = Len(CellsOf(kept[i]))
         /\ \A j \in 1..Len(t[i]) :
              HasValue(CellsOf(kept[i])[j])
                 => t[i][j] = CellsOf(kept[i])[j].val.VarCharValue

(* C4: the normalized table is exactly the raw rows of two cells or more,
   in the order of the response, their cells unchanged and in order; rows
   of no cell, of one cell or without a cell sequence are dropped.  It holds
   of the rows handled so far at every turn of the loop, and of the value
   returned. *)
C4_Flattening ==
    /\ (pc = "process_data" /\ idx <= Len(result_data) + 1)
         => IsFlatteningOf(new_data, SubSeq(result_data, 1, idx - 1))
    /\ RunDone /\ outcome.kind = "returned"
         => IsFlatteningOf(output, result_data)

\* A table has been returned that kept the second row and dropped the first.
C4_Witness ==
    /\ RunDone /\ outcome.kind = "returned"
    /\ Len(result_data) = 2
    /\ Len(CellsOf(result_data[1])) = 1
    /\ Len(CellsOf(result_data[2])) = 2
    /\ Len(output) = 1

(* C5: in every kept row a cell without a value field is None at the same
   position and a cell whose value is the empty string is the empty string,
   and the two differ; a cell without a value still counts as a cell of its
   row. *)
C5_NullIsNotEmpty ==
    RunDone /\ outcome.kind = "returned" =>
        LET kept == KeptRows(result_data) IN
        /\ Len(output) = Len(kept)
        /\ \A i \in 1..Len(kept) : \A j \in 1..Len(CellsOf(kept[i])) :
             LET cell == CellsOf(kept[i])[j] IN
             /\ ~HasValue(cell)
                  => output[i][j].type = "NoneType" /\ output[i][j] # Str("")
             /\ (HasValue(cell) /\ cell.val.VarCharValue = Str(""))
                  => output[i][j].type = "str" /\ output[i][j].val = ""

\* A returned row holds a None next to an empty string, and a row made of
\* cells without value only was kept.
C5_Witness ==
    /\ RunDone /\ outcome.kind = "returned"
    /\ Len(output) = 2
    /\ output[1] = << None, Str("") >>
    /\ output[2] = << None, None >>

FanDone == pc = "done" /\ Last.op = "get_saved_queries"

(* C8: get_saved_queries returns one record per id, the i-th record being
   that of the i-th id, whatever the order in which the workers finish; and
   it returns (or raises) only once no worker is still at work. *)
C8_FanOutInOrder ==
    FanDone =>
        /\ \A i \in 1..Len(futures) : futures[i].state \in {"finished", "cancelled"}
        /\ outcome.kind = "returned" =>
              /\ Len(output) = Len(query_ids)
              /\ \A i \in 1..Len(query_ids) :
                   output[i] = Str(query_ids[i] \o "-record")
              /\ \A i \in 1..Len(futures) : futures[i].state = "finished"

\* Three different ids, the second one's read finished first, and the
\* records came back in the order of the ids.
C8_Witness ==
    /\ FanDone /\ outcome.kind = "returned"
    /\ query_ids = << "q1", "q2", "q3" >>
    /\ completed[1] = 2
    /\ output = << Str("q1-record"), Str("q2-record"), Str("q3-record") >>

\* A field the operation needs is missing (None or empty).
Missing(v) == v.type = "NoneType" \/ v.val = ""

(* C9: an operation invoked with a field it needs missing fails at that
   invocation with a configuration error: status_query needs database and
   output bucket, listing the saved-query ids needs a workgroup. Nothing is
   accepted by the service on behalf of such an invocation. *)
C9_LazyConfigValidation ==
    /\ (InRun /\ (Missing(self.database) \/ Missing(self.output_bucket)))
         => pc = "start_query_execution"
    /\ \A h \in 1..Len(history) :
         LET e == history[h] IN
         /\ (e.op = "status_query"
               /\ (Missing(e.before.database) \/ Missing(e.before.output_bucket)))
              => /\ e.outcome.kind = "raised"
                 /\ \A i \in 1..Len(e.trace) : ~e.trace[i].ok
         /\ (e.op = "get_saved_queries_ids"
               /\ Missing(e.before.workgroup) /\ Missing(e.workgroup))
              => /\ e.outcome.kind = "raised"
                 /\ e.trace = <<>>
                 /\ e.outcome.msg = "Error Getting Saved Queries: Workgroup Not Provided!"

(* C10: two consecutive status_query calls with the same SQL, the service
   answering the same both times, end the same way and return the same
   table; and a run leaves the connector's fields as it found them. *)
C10_Idempotent ==
    /\ InRun => self = self_at_call
    /\ \A h \in 1..Len(history) :
         history[h].op = "status_query" => history[h].after = history[h].before
    /\ \A h \in 1..(Len(history) - 1) :
         (/\ history[h].op = "status_query"
          /\ history[h + 1].op = "status_query"
          /\ history[h + 1].query = history[h].query)
           => /\ history[h + 1].outcome = history[h].outcome
              /\ history[h + 1].output = history[h].output
              /\ history[h + 1].trace = history[h].trace

\* Two runs of the same SQL have both returned a table that kept a row.
C10_Witness ==
    /\ Len(history) >= 2
    /\ history[1].op = "status_query" /\ history[2].op = "status_query"
    /\ history[1].query = history[2].query
    /\ history[2].outcome.kind = "returned"
    /\ history[2].output # <<>>
    /\ Count(history[2].trace, "sleep") >= 1

(* C11: assigning a non-string to a settable field raises TypeError and
   leaves that field and every other field as they were; assigning a string
   replaces that field and no other. *)
C11_SetterTypeValidation ==
    /\ \A h \in 1..Len(history) :
         LET e == history[h] IN
         /\ e.field \in {"database", "output_bucket", "output_location",
                         "workgroup", "data_catalog"}
         /\ e.given.type # "str"
              => /\ e.outcome.kind = "raised" /\ e.outcome.exc = "TypeError"
                 /\ e.after = e.before
         /\ e.given.type = "str"
              => /\ e.outcome.kind = "returned"
                 /\ e.after[e.field] = e.given
                 /\ \A f \in DOMAIN e.before \ {e.field} : e.after[f] = e.before[f]
    /\ history # <<>> => self = history[Len(history)].after

\* The int 0 was refused for workgroup, then a string was stored in
\* data_catalog.
C11_Witness ==
    /\ Len(history) = 2
    /\ history[1].field = "workgroup" /\ history[1].given = PyInt("0")
    /\ history[1].outcome.exc = "TypeError"
    /\ history[2].field = "data_catalog" /\ history[2].given = Str("other")
    /\ self.data_catalog = Str("other")
    /\ self.workgroup = history[1].before.workgroup

IsCall(e) == e.op \in {"get_query_execution", "get_query_results"}

(* C12: Submit (start_query_execution) is the first Gateway call of a run
   and is made exactly once; GetStatus and FetchResultRows are called only
   once Submit has returned a handle, and not at all when Submit fails. *)
C12_SubmitFirstAndOnce ==
    (InRun \/ RunDone) =>
        /\ Count(trace, "start_query_execution") <= 1
        /\ pc # "start_query_execution" => Count(trace, "start_query_execution") = 1
        /\ trace # <<>> => trace[1].op = "start_query_execution"
        /\ \A i \in 1..Len(trace) :
             IsCall(trace[i]) => trace[1].ok /\ trace[1].resp \in Handles
        /\ (trace # <<>> /\ ~trace[1].ok) => Len(trace) = 1 /\ RunDone

\* A run whose Submit was followed by polls and a fetch.
C12_Witness ==
    /\ RunDone
    /\ trace[1].op = "start_query_execution" /\ trace[1].ok
    /\ Count(trace, "get_query_execution") >= 2
    /\ Count(trace, "get_query_results") = 1

(* C13: every GetStatus call and the FetchResultRows call of a run carry the
   handle this run's Submit returned; the handle does not change during the
   run, and no field of the connector holds it once the run is over. *)
C13_HandleCorrelation ==
    /\ (InRun \/ RunDone) =>
         /\ \A i \in 1..Len(trace) :
              IsCall(trace[i]) => trace[1].ok /\ trace[i].id = trace[1].resp
         /\ (trace # <<>> /\ trace[1].ok) => query_execution_id = trace[1].resp
    /\ RunDone =>
         /\ self = self_at_call
         /\ \A f \in DOMAIN self : trace # <<>> => self[f] # Str(trace[1].resp)
    /\ pc = "start_query_execution" => query_execution_id = ""

\* A second run has polled and fetched with its own handle.
C13_Witness ==
    /\ RunDone /\ Len(history) = 2
    /\ history[1].op = "status_query"
    /\ trace[1].ok
    /\ \E i \in 1..Len(trace) : trace[i].op = "get_query_results"
                                /\ trace[i].id = trace[1].resp

(* C15: between two consecutive GetStatus calls of a run there is exactly
   one sleep, of 5 seconds; there is no sleep before the first GetStatus call
   and none after the call that returned a terminal state, so that a finished
   run of k GetStatus calls slept k-1 times, 5 seconds each. *)
C15_PollPacing ==
    (InRun \/ RunDone) =>
        /\ \A i \in 1..Len(trace) :
             trace[i].op = "sleep" =>
                 /\ trace[i].secs = 5
                 /\ i > 1
                 /\ trace[i - 1].op = "get_query_execution" /\ trace[i - 1].ok
                 /\ trace[i - 1].resp \notin {"SUCCEEDED", "FAILED", "CANCELLED"}
                 /\ i < Len(trace) => trace[i + 1].op = "get_query_execution"
        /\ \A i \in 2..Len(trace) :
             trace[i].op = "get_query_execution" =>
                 \/ i = 2 /\ trace[1].op = "start_query_execution"
                 \/ i > 2 /\ trace[i - 1].op = "sleep"
                          /\ trace[i - 2].op = "get_query_execution"
        /\ (RunDone /\ Count(trace, "get_query_execution") >= 1) =>
             Count(trace, "sleep") = Count(trace, "get_query_execution") - 1

\* A finished run of three GetStatus calls and two sleeps.
C15_Witness ==
    /\ RunDone
    /\ Count(trace, "get_query_execution") = 3
    /\ Count(trace, "sleep") = 2

(* C17: the loop leaves POLLING exactly when GetStatus returned SUCCEEDED,
   FAILED or CANCELLED: after any other word, one outside the enumeration
   included, the run sleeps and calls GetStatus again. *)
C17_OnlyTerminalLeavesPolling ==
    (InRun \/ RunDone) =>
        /\ \A i \in 1..Len(trace) :
             (trace[i].op = "get_query_execution" /\ trace[i].ok) =>
                 IF trace[i].resp \in {"SUCCEEDED", "FAILED", "CANCELLED"}
                 THEN /\ i = Len(trace) => pc = "get_query_results"
                      /\ i < Len(trace) => trace[i + 1].op = "get_query_results"
                 ELSE /\ i = Len(trace) => pc = "sleep"
                      /\ i < Len(trace) => trace[i + 1].op = "sleep"
                      /\ i + 1 = Len(trace) => pc = "get_query_execution"
                      /\ i + 1 < Len(trace) => trace[i + 2].op = "get_query_execution"
        /\ pc \in {"get_query_results", "process_data"} =>
             \E i \in 1..Len(trace) : SawTerminal(trace, i)
        /\ pc = "sleep" => ~ \E i \in 1..Len(trace) : SawTerminal(trace, i)

\* GetStatus returned a word outside the enumeration, and the run slept and
\* polled again.
C17_Witness ==
    /\ RunDone
    /\ \E i \in 1..(Len(trace) - 2) :
         /\ Saw(trace, i, "UNKNOWN")
         /\ trace[i + 1].op = "sleep"
         /\ trace[i + 2].op = "get_query_execution"

InPolling == pc \in {"get_query_execution", "sleep"}

\* The service ends its answers to GetStatus with a terminal state or with
\* a failure / goes on answering with a non-terminal state for ever.
ScriptEnds ==
    /\ canned.status # <<>>
    /\ LET a == canned.status[Len(canned.status)]
       IN ~a.ok \/ a.val \in {"SUCCEEDED", "FAILED", "CANCELLED"}

ScriptNeverEnds ==
    /\ canned.status # <<>>
    /\ LET a == canned.status[Len(canned.status)]
       IN a.ok /\ a.val \notin {"SUCCEEDED", "FAILED", "CANCELLED"}

(* C16: when the service eventually answers a GetStatus call with a
   terminal state or a failure, a run that is polling eventually returns or
   raises; when it answers every GetStatus call with a non-terminal state,
   the run never leaves POLLING, however many polls it has made. *)
C16_Termination ==
    /\ InRun ~> (RunDone \/ ScriptNeverEnds)
    /\ [](ScriptNeverEnds => InPolling)

\* A run has ended after two waits and a third poll.
C16_Witness ==
    /\ RunDone
    /\ ScriptEnds
    /\ Count(trace, "sleep") = 2
    /\ Count(trace, "get_query_execution") = 3

\* The submissions the service took from thread t (one at most).
Owned(t) == { i \in 1..Len(executions) : executions[i].owner = t }

\* The calls and sleeps of a run that is alone with the service, from its
\* k-th GetStatus call on, given how the service lets its query go.
RECURSIVE LonePolls(_, _)
LonePolls(e, k) ==
    LET a == ScriptAnswer(e.script, k) IN
    IF ~a.ok
    THEN << Event("get_query_execution", e.id, FALSE, a.err, 0) >>
    ELSE << Event("get_query_execution", e.id, TRUE, a.val, 0) >> \o
         (IF a.val \in {"SUCCEEDED", "FAILED", "CANCELLED"}
          THEN << Event("get_query_results", e.id, e.rows.ok,
                        IF e.rows.ok THEN "" ELSE e.rows.err, 0) >>
          ELSE << Event("sleep", "", TRUE, "", PollInterval) >> \o LonePolls(e, k + 1))

LoneTrace(e) ==
    << Event("start_query_execution", "", TRUE, e.id, 0) >> \o LonePolls(e, 1)

(* C14: with two status_query calls on one connector interleaved in any
   way, every GetStatus and FetchResultRows call of a run carries the handle
   the service gave to that run, and a run that has ended made the calls it
   would have made alone and, when it returned, returned the flattening of
   the rows the service keeps for its own handle. *)
C14_ConcurrentRunsIsolated ==
    \A t \in Threads :
        LET f == frames[t] IN
        /\ \A i \in 1..Len(f.trace) :
             IsCall(f.trace[i]) =>
                \E o \in Owned(t) : executions[o].id = f.trace[i].id
        /\ (f.pc = "done" /\ Owned(t) # {}) =>
              \A o \in Owned(t) :
                 /\ f.trace = LoneTrace(executions[o])
                 /\ f.outcome.kind = "returned" =>
                       /\ executions[o].rows.ok
                       /\ f.result_data = executions[o].rows.val
                       /\ IsFlatteningOf(f.output, executions[o].rows.val)
        /\ (f.pc = "done" /\ Owned(t) = {}) => f.outcome.kind = "raised"

\* The second thread submitted after the first and has returned its own
\* table while the first, whose rows are others, is still waiting.
C14_Witness ==
    /\ Len(executions) = 2
    /\ executions[1].owner = "t1" /\ executions[2].owner = "t2"
    /\ frames["t1"].pc = "sleep"
    /\ frames["t2"].pc = "done"
    /\ frames["t2"].outcome.kind = "returned"
    /\ frames["t2"].output = << << Str(""), Str("a") >> >>
    /\ executions[1].rows.ok
    /\ executions[1].rows.val # executions[2].rows.val
    /\ Count(frames["t2"].trace, "sleep") = 1

\* An argument that is given, and is not a string.
GivenNonString(v) == v.type \notin {"NoneType", "str"}

(* C18: construction raises TypeError, and no client is made, exactly when
   region is not a string (None included) or one of the optional arguments
   is given a value that is not a string; an optional argument left out is
   accepted. *)
C18_ConstructorValidation ==
    (pc = "done" /\ Last.op = "__init__") =>
        LET mustFail ==
              \/ ~IsStr(given.region)
              \/ \E i \in 2..Len(ArgNames) : GivenNonString(given[ArgNames[i]])
        IN /\ mustFail <=> (outcome.kind = "raised" /\ outcome.exc = "TypeError")
           /\ outcome.kind = "raised" => self.client = None
           /\ outcome.kind = "returned" => self.client = Client

====
